---- MODULE Spec2Model ----
(***************************************************************************)
(* Model of the WebAssembly container codec of wasi-compat                 *)
(* (src/wasi-compat/src/wasm_module/mod.rs): SectionId conversions,        *)
(* Section construction and framing, the streaming section iterator and    *)
(* Module::deserialize / Module::serialize.                                *)
(*                                                                         *)
(* The varint submodule (`pub(crate) mod varint;`) is not part of the      *)
(* sources at hand; Put, Get7 and Get32 are modelled from section 4.1 of   *)
(* the specification.                                                      *)
(***************************************************************************)
EXTENDS Integers, Sequences, FiniteSets, TLC

VARIABLES
    op,        \* which public entry point this behaviour exercises
    arg,       \* the caller's argument (a Module, a byte, a SectionId, ...)
    pc,        \* position inside the entry point
    input,     \* the byte source handed to Module::deserialize
    pos,       \* read position of the byte source
    header,    \* local `header` of Module::deserialize
    sections,  \* local `sections` of Module::deserialize
    result,    \* value returned by Module::deserialize
    yielded,   \* number of Some(..) items SectionsIterator::next has returned
    last,      \* outcome of the most recent SectionsIterator::next call
    out,       \* bytes written by Module::serialize of the parsed module
    ret        \* value returned by a constructor or conversion

vars == <<op, arg, pc, input, pos, header, sections, result, yielded, last, out, ret>>

(***************************************************************************)
(* Bounds of the model.                                                    *)
(***************************************************************************)
MaxBody == 5        \* longest raw byte string after the header / raw payload
MaxSections == 2    \* most sections in a caller-built Module
MaxPayload == 1     \* longest payload in a caller-built section

\* Bytes raw inputs are drawn from: custom id / zero length, small ids and
\* lengths, a continuation byte with zero value bits, a UTF-8 lead byte.
RawBytes == {0, 1, 2, 128, 194}
PayloadBytes == {7}

None == [kind |-> "none"]

SeqsUpTo(S, n) == UNION {[1..k -> S] : k \in 0..n}

(***************************************************************************)
(* Header constants.                                                       *)
(***************************************************************************)
WASM_HEADER == <<0, 97, 115, 109, 1, 0, 0, 0>>
WASM_HEADER_COMPONENT == <<0, 97, 115, 109, 13, 0, 1, 0>>

(***************************************************************************)
(* SectionId and its conversions.                                          *)
(***************************************************************************)
Named(t) == [tag |-> t]
Extension(x) == [tag |-> "Extension", x |-> x]
CustomSectionId == Named("CustomSection")

NamedTags == <<"CustomSection", "Type", "Import", "Function", "Table", "Memory",
               "Global", "Export", "Start", "Element", "Code", "Data">>

SectionIds == {Named(NamedTags[i]) : i \in 1..12} \cup {Extension(x) : x \in 0..255}

\* impl From<u8> for SectionId
SectionIdFromU8(v) == IF v <= 11 THEN Named(NamedTags[v + 1]) ELSE Extension(v)

\* Mutant of U8FromSectionId: the bytes of Code and Data exchanged.
U8FromSectionIdSwapped(v) ==
    IF v.tag = "Extension" THEN v.x
    ELSE IF v.tag = "Code" THEN 11
    ELSE IF v.tag = "Data" THEN 10
    ELSE CHOOSE i \in 0..11 : NamedTags[i + 1] = v.tag

\* impl From<SectionId> for u8
U8FromSectionId(v) ==
    IF v.tag = "Extension" THEN v.x
    ELSE CHOOSE i \in 0..11 : NamedTags[i + 1] = v.tag

(***************************************************************************)
(* Byte source: Read::read_exact on an in-memory source.  A short read     *)
(* drains the source and fails.                                            *)
(***************************************************************************)
ReadExact(src, p, n) ==
    IF p + n <= Len(src)
    THEN [ok |-> TRUE, bytes |-> SubSeq(src, p + 1, p + n), pos |-> p + n]
    ELSE [ok |-> FALSE, bytes |-> <<>>, pos |-> Len(src)]

\* Read::read_to_end
ReadToEnd(src, p) == SubSeq(src, p + 1, Len(src))

(***************************************************************************)
(* Varint codec (unsigned LEB128), from section 4.1 of the specification.  *)
(***************************************************************************)
Pow2(n) == 2 ^ n

RECURSIVE Put(_)
Put(v) == IF v > 127 THEN <<(v % 128) + 128>> \o Put(v \div 128) ELSE <<v>>

Get7(src, p) ==
    LET r == ReadExact(src, p, 1) IN
    IF r.ok THEN [ok |-> TRUE, val |-> r.bytes[1] % 128, pos |-> r.pos]
    ELSE [ok |-> FALSE, err |-> "Eof", pos |-> r.pos]

\* The fifth byte may carry only the top four bits of a 32-bit value; a set
\* continuation bit on it asks for a sixth byte.
RECURSIVE Get32Loop(_, _, _, _)
Get32Loop(src, p, i, v) ==
    LET r == ReadExact(src, p, 1) IN
    IF ~r.ok THEN [ok |-> FALSE, err |-> "TruncatedInput", pos |-> r.pos]
    ELSE LET b  == r.bytes[1]
             v2 == v + (b % 128) * Pow2(7 * i)
         IN IF i = 4 /\ b % 128 > 15
            THEN [ok |-> FALSE, err |-> "VarintOverflow", pos |-> r.pos]
            ELSE IF b < 128 THEN [ok |-> TRUE, val |-> v2, pos |-> r.pos]
            ELSE IF i = 4 THEN [ok |-> FALSE, err |-> "VarintOverflow", pos |-> r.pos]
            ELSE Get32Loop(src, r.pos, i + 1, v2)

Get32(src, p) == Get32Loop(src, p, 0, 0)

(***************************************************************************)
(* str::from_utf8: well-formed UTF-8 (no overlong forms, no surrogates,    *)
(* nothing above U+10FFFF).                                                *)
(***************************************************************************)
Cont(b) == b >= 128 /\ b <= 191

RECURSIVE ValidUtf8(_)
ValidUtf8(bs) ==
    IF bs = <<>> THEN TRUE
    ELSE LET b == bs[1]
             n == Len(bs)
         IN IF b < 128 THEN ValidUtf8(Tail(bs))
            ELSE IF b >= 194 /\ b <= 223
                 THEN n >= 2 /\ Cont(bs[2]) /\ ValidUtf8(SubSeq(bs, 3, n))
            ELSE IF b >= 224 /\ b <= 239
                 THEN /\ n >= 3
                      /\ Cont(bs[2]) /\ Cont(bs[3])
                      /\ (b = 224 => bs[2] >= 160)
                      /\ (b = 237 => bs[2] <= 159)
                      /\ ValidUtf8(SubSeq(bs, 4, n))
            ELSE IF b >= 240 /\ b <= 244
                 THEN /\ n >= 4
                      /\ Cont(bs[2]) /\ Cont(bs[3]) /\ Cont(bs[4])
                      /\ (b = 240 => bs[2] >= 144)
                      /\ (b = 244 => bs[2] <= 143)
                      /\ ValidUtf8(SubSeq(bs, 5, n))
            ELSE FALSE

(***************************************************************************)
(* Sections.                                                               *)
(***************************************************************************)
\* StandardSection::new
StandardSectionNew(id, payload) == [id |-> id, payload |-> payload]

\* CustomSection::new
CustomSectionNew(name, payload) == [name |-> name, payload |-> payload]

\* Section::Standard(..) and Section::Custom(..)
Standard(s) == [variant |-> "Standard", id |-> s.id, payload |-> s.payload]
Custom(s) == [variant |-> "Custom", name |-> s.name, payload |-> s.payload]

\* SectionLike::id for Section
SectionIdOf(s) == IF s.variant = "Standard" THEN s.id ELSE CustomSectionId

\* Mutant of OuterPayload: the name length is left out of the framing.
OuterPayloadNoLength(s) == s.name \o s.payload

\* CustomSection::outer_payload
OuterPayload(s) == Put(Len(s.name)) \o s.name \o s.payload

\* Mutant of SectionNew: the name is taken as it is (a lossy conversion in
\* place of str::from_utf8) and the custom payload is not cut after the name.
SectionNewUnchecked(id, payload) ==
    IF id = CustomSectionId
    THEN LET l == Get32(payload, 0) IN
         IF ~l.ok THEN [ok |-> FALSE, err |-> l.err]
         ELSE LET nm == ReadExact(payload, l.pos, l.val) IN
              IF ~nm.ok THEN [ok |-> FALSE, err |-> "TruncatedInput"]
              ELSE [ok |-> TRUE,
                    section |-> Custom(CustomSectionNew(nm.bytes, ReadToEnd(payload, l.pos)))]
    ELSE [ok |-> TRUE, section |-> Standard(StandardSectionNew(id, payload))]

\* Section::new
SectionNew(id, payload) ==
    IF id = CustomSectionId
    THEN LET l == Get32(payload, 0) IN
         IF ~l.ok THEN [ok |-> FALSE, err |-> l.err]
         ELSE LET nm == ReadExact(payload, l.pos, l.val) IN
              IF ~nm.ok THEN [ok |-> FALSE, err |-> "TruncatedInput"]
              ELSE IF ~ValidUtf8(nm.bytes) THEN [ok |-> FALSE, err |-> "InvalidUtf8"]
              ELSE [ok |-> TRUE,
                    section |-> Custom(CustomSectionNew(nm.bytes, ReadToEnd(payload, nm.pos)))]
    ELSE [ok |-> TRUE, section |-> Standard(StandardSectionNew(id, payload))]

\* Mutant of SectionDeserialize: the payload is read with a single read call,
\* which returns what is there, in place of read_exact.
SectionDeserializeShortRead(src, p) ==
    LET i == Get7(src, p) IN
    IF ~i.ok THEN [kind |-> "None", pos |-> i.pos]
    ELSE LET id == SectionIdFromU8(i.val)
             l  == Get32(src, i.pos)
         IN IF ~l.ok THEN [kind |-> "Err", err |-> l.err, pos |-> l.pos]
            ELSE LET n  == IF l.val <= Len(src) - l.pos THEN l.val ELSE Len(src) - l.pos
                     pl == ReadExact(src, l.pos, n)
                     s  == SectionNew(id, pl.bytes)
                 IN IF ~s.ok THEN [kind |-> "Err", err |-> s.err, pos |-> pl.pos]
                    ELSE [kind |-> "Some", section |-> s.section, pos |-> pl.pos]

\* Mutant of SectionDeserialize: the match arm that turns Eof on the id byte
\* into "no more sections" is missing, so Eof is passed on as an error.
SectionDeserializeEofIsError(src, p) ==
    LET i == Get7(src, p) IN
    IF ~i.ok THEN [kind |-> "Err", err |-> i.err, pos |-> i.pos]
    ELSE LET id == SectionIdFromU8(i.val)
             l  == Get32(src, i.pos)
         IN IF ~l.ok THEN [kind |-> "Err", err |-> l.err, pos |-> l.pos]
            ELSE LET pl == ReadExact(src, l.pos, l.val) IN
                 IF ~pl.ok THEN [kind |-> "Err", err |-> "TruncatedInput", pos |-> pl.pos]
                 ELSE LET s == SectionNew(id, pl.bytes) IN
                      IF ~s.ok THEN [kind |-> "Err", err |-> s.err, pos |-> pl.pos]
                      ELSE [kind |-> "Some", section |-> s.section, pos |-> pl.pos]

\* Section::deserialize
SectionDeserialize(src, p) ==
    LET i == Get7(src, p) IN
    IF ~i.ok THEN [kind |-> "None", pos |-> i.pos]
    ELSE LET id == SectionIdFromU8(i.val)
             l  == Get32(src, i.pos)
         IN IF ~l.ok THEN [kind |-> "Err", err |-> l.err, pos |-> l.pos]
            ELSE LET pl == ReadExact(src, l.pos, l.val) IN
                 IF ~pl.ok THEN [kind |-> "Err", err |-> "TruncatedInput", pos |-> pl.pos]
                 ELSE LET s == SectionNew(id, pl.bytes) IN
                      IF ~s.ok THEN [kind |-> "Err", err |-> s.err, pos |-> pl.pos]
                      ELSE [kind |-> "Some", section |-> s.section, pos |-> pl.pos]

\* Section::serialize
SectionSerialize(s) ==
    LET payload == IF s.variant = "Standard" THEN s.payload ELSE OuterPayload(s)
    IN Put(U8FromSectionId(SectionIdOf(s))) \o Put(Len(payload)) \o payload

RECURSIVE SerializeSections(_)
SerializeSections(ss) ==
    IF ss = <<>> THEN <<>> ELSE SectionSerialize(Head(ss)) \o SerializeSections(Tail(ss))

\* Module::serialize
ModuleSerialize(m) == m.header \o SerializeSections(m.sections)

\* Mutant of StreamInit: the component header is not recognized.
StreamInitCoreOnly(src, p) ==
    LET r == ReadExact(src, p, 8) IN
    IF ~r.ok THEN [ok |-> FALSE, err |-> "TruncatedInput", pos |-> r.pos]
    ELSE IF r.bytes = WASM_HEADER THEN [ok |-> TRUE, header |-> r.bytes, pos |-> r.pos]
    ELSE [ok |-> FALSE, err |-> "UnsupportedModuleType", pos |-> r.pos]

\* Module::stream_init
StreamInit(src, p) ==
    LET r == ReadExact(src, p, 8) IN
    IF ~r.ok THEN [ok |-> FALSE, err |-> "TruncatedInput", pos |-> r.pos]
    ELSE IF r.bytes = WASM_HEADER THEN [ok |-> TRUE, header |-> r.bytes, pos |-> r.pos]
    ELSE IF r.bytes = WASM_HEADER_COMPONENT THEN [ok |-> TRUE, header |-> r.bytes, pos |-> r.pos]
    ELSE [ok |-> FALSE, err |-> "UnsupportedModuleType", pos |-> r.pos]

(***************************************************************************)
(* Inputs.                                                                 *)
(***************************************************************************)
GoodHeaders == {WASM_HEADER, WASM_HEADER_COMPONENT}

\* Eight bytes that are neither constant: one byte of a constant changed, and
\* the two constants crossed.
BadHeaders ==
    {[h EXCEPT ![i] = 255] : h \in GoodHeaders, i \in 1..8}
        \cup {<<0, 97, 115, 109, 1, 0, 1, 0>>, <<0, 97, 115, 109, 13, 0, 0, 0>>}

Bodies == SeqsUpTo(RawBytes, MaxBody)

RawInputs ==
    {h \o b : h \in GoodHeaders, b \in Bodies}
        \cup {h \o b : h \in BadHeaders, b \in {<<>>, <<1, 0>>, <<0, 2, 1, 1>>}}
        \cup {SubSeq(h, 1, k) : h \in GoodHeaders, k \in 0..7}

Payloads == SeqsUpTo(PayloadBytes, MaxPayload)

\* "", "n" and U+0080
Names == {<<>>, <<110>>, <<194, 128>>}

\* Section ids of caller-built standard sections: first and last named kind
\* boundary, first Extension id, both sides of the one-byte varint limit.
IdSample == {1, 12, 127, 128, 255}

\* The custom section "name" with payload [1,2,3].
ExampleSection == Custom(CustomSectionNew(<<110, 97, 109, 101>>, <<1, 2, 3>>))

SectionPool ==
    {Standard(StandardSectionNew(SectionIdFromU8(i), p)) : i \in IdSample, p \in Payloads}
        \cup {Custom(CustomSectionNew(n, p)) : n \in Names, p \in Payloads}
        \cup {ExampleSection}

Modules == [header : GoodHeaders, sections : SeqsUpTo(SectionPool, MaxSections)]

\* SectionId values a caller passes to the constructors.
IdArgs == {CustomSectionId, Named("Type"), Named("Data"),
           Extension(0), Extension(12), Extension(255)}

(***************************************************************************)
(* Initial states: one call of one public entry point.                     *)
(***************************************************************************)
Idle ==
    /\ input = <<>> /\ pos = 0 /\ header = <<>> /\ sections = <<>>
    /\ result = None /\ yielded = 0 /\ last = None /\ out = None /\ ret = None

Init ==
    \/ /\ op = "roundtrip" /\ arg \in Modules /\ pc = "built" /\ Idle
    \/ /\ op = "deserialize" /\ arg \in RawInputs /\ pc = "start"
       /\ input = arg /\ pos = 0 /\ header = <<>> /\ sections = <<>>
       /\ result = None /\ yielded = 0 /\ last = None /\ out = None /\ ret = None
    \/ /\ op = "stream" /\ arg \in RawInputs /\ pc = "init"
       /\ input = arg /\ pos = 0 /\ header = <<>> /\ sections = <<>>
       /\ result = None /\ yielded = 0 /\ last = None /\ out = None /\ ret = None
    \/ /\ op = "Section::new" /\ arg \in [id : IdArgs, payload : Bodies]
       /\ pc = "call" /\ Idle
    \/ /\ op = "StandardSection::new" /\ arg \in [id : IdArgs, payload : Payloads]
       /\ pc = "call" /\ Idle
    \/ /\ op = "CustomSection::new" /\ arg \in [name : Names, payload : Payloads]
       /\ pc = "call" /\ Idle
    \/ /\ op = "u8" /\ arg \in 0..255 /\ pc = "call" /\ Idle
    \/ /\ op = "SectionId" /\ arg \in SectionIds /\ pc = "call" /\ Idle

(***************************************************************************)
(* Module::serialize of the caller's module into the byte source that is   *)
(* then read back.                                                         *)
(***************************************************************************)
Serialize ==
    /\ pc = "built"
    /\ input' = ModuleSerialize(arg)
    /\ pc' = "start"
    /\ UNCHANGED <<op, arg, pos, header, sections, result, yielded, last, out, ret>>

\* Module::deserialize, first statement: stream_init.
DeserializeInit ==
    /\ pc = "start"
    /\ LET h == StreamInit(input, pos) IN
       /\ pos' = h.pos
       /\ IF h.ok
          THEN /\ header' = h.header
               /\ pc' = "stream"
               /\ result' = result
          ELSE /\ header' = header
               /\ pc' = "failed"
               /\ result' = [ok |-> FALSE, err |-> h.err]
    /\ UNCHANGED <<op, arg, input, sections, yielded, last, out, ret>>

\* Mutant of DeserializeNext: a section that fails to decode is skipped and
\* the loop goes on.
DeserializeNextSkipsErrors ==
    /\ pc = "stream"
    /\ LET r == SectionDeserialize(input, pos) IN
       /\ pos' = r.pos
       /\ last' = [kind |-> r.kind, start |-> pos, end |-> r.pos,
                   err |-> IF r.kind = "Err" THEN r.err ELSE "",
                   section |-> IF r.kind = "Some" THEN r.section ELSE None]
       /\ yielded' = IF r.kind = "None" THEN yielded ELSE yielded + 1
       /\ sections' = IF r.kind = "Some" THEN Append(sections, r.section) ELSE sections
       /\ pc' = IF r.kind = "None" THEN "done" ELSE "stream"
       /\ result' = IF r.kind = "None"
                    THEN [ok |-> TRUE, module |-> [header |-> header, sections |-> sections]]
                    ELSE result
    /\ UNCHANGED <<op, arg, input, header, out, ret>>

\* Module::deserialize, one turn of `for section in it`: SectionsIterator::next
\* followed by `sections.push(section?)`, or the return after the loop.
DeserializeNext ==
    /\ pc = "stream"
    /\ LET r == SectionDeserialize(input, pos) IN
       /\ pos' = r.pos
       /\ last' = [kind |-> r.kind, start |-> pos, end |-> r.pos,
                   err |-> IF r.kind = "Err" THEN r.err ELSE "",
                   section |-> IF r.kind = "Some" THEN r.section ELSE None]
       /\ yielded' = IF r.kind = "None" THEN yielded ELSE yielded + 1
       /\ CASE r.kind = "Some" ->
                 /\ sections' = Append(sections, r.section)
                 /\ pc' = "stream"
                 /\ result' = result
            [] r.kind = "Err" ->
                 /\ sections' = sections
                 /\ pc' = "failed"
                 /\ result' = [ok |-> FALSE, err |-> r.err]
            [] r.kind = "None" ->
                 /\ sections' = sections
                 /\ pc' = "done"
                 /\ result' = [ok |-> TRUE,
                               module |-> [header |-> header, sections |-> sections]]
    /\ UNCHANGED <<op, arg, input, header, out, ret>>

\* Module::serialize of the module Module::deserialize returned, unmodified.
Reserialize ==
    /\ pc = "done"
    /\ out' = ModuleSerialize(result.module)
    /\ pc' = "written"
    /\ UNCHANGED <<op, arg, input, pos, header, sections, result, yielded, last, ret>>

(***************************************************************************)
(* The streaming interface used directly: Module::stream_init, then        *)
(* Module::stream and SectionsIterator::next as often as the caller likes. *)
(* The iterator keeps no state of its own: a call after an error, after   *)
(* the end, or after stream_init rejected the header, reads on from where  *)
(* the source stands.                                                      *)
(***************************************************************************)
CallStreamInit ==
    /\ op = "stream" /\ pc = "init"
    /\ LET h == StreamInit(input, pos) IN
       /\ pos' = h.pos
       /\ IF h.ok
          THEN /\ header' = h.header
               /\ pc' = "iter"
               /\ ret' = [ok |-> TRUE, header |-> h.header]
          ELSE /\ header' = header
               /\ pc' = "rejected"
               /\ ret' = [ok |-> FALSE, err |-> h.err]
    /\ UNCHANGED <<op, arg, input, sections, result, yielded, last, out>>

\* SectionsIterator::next on the iterator Module::stream returned.  Module::stream
\* hands out an iterator for any reader, whatever stream_init answered.
IteratorNext ==
    /\ op = "stream" /\ pc \in {"iter", "ended", "rejected"}
    /\ LET r == SectionDeserialize(input, pos) IN
       /\ pos' = r.pos
       /\ last' = [kind |-> r.kind, start |-> pos, end |-> r.pos,
                   err |-> IF r.kind = "Err" THEN r.err ELSE "",
                   section |-> IF r.kind = "Some" THEN r.section ELSE None]
       /\ yielded' = IF r.kind = "None" THEN yielded ELSE yielded + 1
       /\ pc' = IF r.kind = "None" THEN "ended" ELSE "iter"
    /\ UNCHANGED <<op, arg, input, header, sections, result, out, ret>>

(***************************************************************************)
(* Constructors and conversions called directly.                           *)
(***************************************************************************)
CallSectionNew ==
    /\ op = "Section::new" /\ pc = "call"
    /\ ret' = SectionNew(arg.id, arg.payload)
    /\ pc' = "returned"
    /\ UNCHANGED <<op, arg, input, pos, header, sections, result, yielded, last, out>>

CallStandardNew ==
    /\ op = "StandardSection::new" /\ pc = "call"
    /\ ret' = [ok |-> TRUE, section |-> Standard(StandardSectionNew(arg.id, arg.payload))]
    /\ pc' = "returned"
    /\ UNCHANGED <<op, arg, input, pos, header, sections, result, yielded, last, out>>

CallCustomNew ==
    /\ op = "CustomSection::new" /\ pc = "call"
    /\ ret' = [ok |-> TRUE, section |-> Custom(CustomSectionNew(arg.name, arg.payload))]
    /\ pc' = "returned"
    /\ UNCHANGED <<op, arg, input, pos, header, sections, result, yielded, last, out>>

\* SectionId::from(b), on the caller's byte or on the byte just computed.
CallFromU8 ==
    /\ \/ op = "u8" /\ pc = "call" /\ ret' = SectionIdFromU8(arg) /\ pc' = "mid"
       \/ op = "SectionId" /\ pc = "mid" /\ ret' = SectionIdFromU8(ret) /\ pc' = "returned"
    /\ UNCHANGED <<op, arg, input, pos, header, sections, result, yielded, last, out>>

\* u8::from(s), on the caller's SectionId or on the one just computed.
CallToU8 ==
    /\ \/ op = "SectionId" /\ pc = "call" /\ ret' = U8FromSectionId(arg) /\ pc' = "mid"
       \/ op = "u8" /\ pc = "mid" /\ ret' = U8FromSectionId(ret) /\ pc' = "returned"
    /\ UNCHANGED <<op, arg, input, pos, header, sections, result, yielded, last, out>>

Next ==
    \/ Serialize
    \/ DeserializeInit
    \/ DeserializeNext
    \/ Reserialize
    \/ CallStreamInit
    \/ IteratorNext
    \/ CallSectionNew
    \/ CallStandardNew
    \/ CallCustomNew
    \/ CallFromU8
    \/ CallToU8

Spec == Init /\ [][Next]_vars

(***************************************************************************)
(* Reference reading of the wire format (section 6 of the specification),  *)
(* written without the decoder above: where the length field ends, what it *)
(* says, and the records of a whole body.                                  *)
(***************************************************************************)
\* Number of bytes of the LEB128 field starting bs, 0 when bs ends inside it.
LenFieldSize(bs) ==
    IF \E k \in 1..Len(bs) : bs[k] < 128
    THEN CHOOSE k \in 1..Len(bs) : bs[k] < 128 /\ \A j \in 1..(k - 1) : bs[j] >= 128
    ELSE 0

RECURSIVE LebSum(_, _)
LebSum(bs, k) == IF k = 0 THEN 0 ELSE LebSum(bs, k - 1) + (bs[k] % 128) * (128 ^ (k - 1))

\* The field is at most five bytes and fits 32 bits.
WellFormedLen(bs) ==
    LET k == LenFieldSize(bs) IN k \in 1..5 /\ (k = 5 => bs[5] <= 15)

\* bs ends before its length field does.
EndsInsideLen(bs) == Len(bs) < 5 /\ \A j \in 1..Len(bs) : bs[j] >= 128

\* bs holds a whole length field and fewer bytes after it than it declares.
EndsInsidePayload(bs) ==
    /\ WellFormedLen(bs)
    /\ Len(bs) - LenFieldSize(bs) < LebSum(bs, LenFieldSize(bs))

Rest(bs, from) == SubSeq(bs, from + 1, Len(bs))

\* Every record of the source from position p on, decoded in order, or the
\* first failure.
RECURSIVE DecodeAll(_, _)
DecodeAll(src, p) ==
    LET r == SectionDeserialize(src, p) IN
    IF r.kind = "None" THEN [ok |-> TRUE, sections |-> <<>>]
    ELSE IF r.kind = "Err" THEN [ok |-> FALSE, err |-> r.err, pos |-> r.pos]
    ELSE LET t == DecodeAll(src, r.pos) IN
         IF t.ok THEN [ok |-> TRUE, sections |-> <<r.section>> \o t.sections] ELSE t

Parsing == op \in {"roundtrip", "deserialize"}
Returned == pc \in {"done", "failed", "written"}

(***************************************************************************)
(* C1.  Round trip from value to bytes and back: for a caller-built Module *)
(* with a recognized header and any Standard (id byte 1..255) and Custom   *)
(* sections, Module::deserialize of the bytes Module::serialize wrote      *)
(* succeeds and returns the same header and the same sections in order.    *)
(***************************************************************************)
C1_RoundTrip ==
    (op = "roundtrip" /\ Returned) =>
        /\ result.ok
        /\ result.module.header = arg.header
        /\ result.module.sections = arg.sections

(***************************************************************************)
(* C2.  Byte-exact pass-through: whenever Module::deserialize succeeds on  *)
(* a byte sequence B, Module::serialize of the returned module writes      *)
(* exactly B, whatever varint encoding B used.                             *)
(***************************************************************************)
C2_PassThrough == (pc = "written") => (out = input)

(***************************************************************************)
(* C3.  Header rejection: when the first 8 bytes of the input are neither  *)
(* constant, Module::deserialize fails with UnsupportedModuleType and no   *)
(* section is parsed or produced; when they are one of the two constants,  *)
(* stream_init succeeds and returns those 8 bytes unchanged.               *)
(***************************************************************************)
Recognized(bs) ==
    \/ bs = <<0, 97, 115, 109, 1, 0, 0, 0>>
    \/ bs = <<0, 97, 115, 109, 13, 0, 1, 0>>

\* C3 for Module::stream_init called directly; pc = "rejected" is its return,
\* before the caller does anything else with the source.
C3_StreamInitDirect ==
    (op = "stream" /\ pc # "init" /\ Len(input) >= 8) =>
        IF Recognized(SubSeq(input, 1, 8))
        THEN header = SubSeq(input, 1, 8) /\ ret = [ok |-> TRUE, header |-> SubSeq(input, 1, 8)]
        ELSE /\ ret = [ok |-> FALSE, err |-> "UnsupportedModuleType"]
             /\ header = <<>>
             /\ pc = "rejected" => (yielded = 0 /\ last = None /\ pos = 8)

C3_HeaderRejection ==
    /\ C3_StreamInitDirect
    /\ (Parsing /\ pc \notin {"built", "start"} /\ Len(input) >= 8) =>
        (IF Recognized(SubSeq(input, 1, 8))
         THEN /\ header = SubSeq(input, 1, 8)
              /\ (pc = "failed" => result.err # "UnsupportedModuleType")
         ELSE /\ pc = "failed"
              /\ result = [ok |-> FALSE, err |-> "UnsupportedModuleType"]
              /\ sections = <<>> /\ yielded = 0 /\ last = None /\ pos = 8)

C3_Witness ==
    /\ pc = "failed" /\ result.err = "UnsupportedModuleType"
    /\ Len(input) > 8 /\ input[5] = 13

(***************************************************************************)
(* C4.  The custom section named "name" with payload [1,2,3] is written as *)
(* id byte 0, length 9, then [4,'n','a','m','e',1,2,3], and reading that   *)
(* back gives a Custom section with the same name and payload.             *)
(***************************************************************************)
C4_Example ==
    (/\ op = "roundtrip" /\ pc # "built"
     /\ arg.sections = <<[variant |-> "Custom", name |-> <<110, 97, 109, 101>>,
                          payload |-> <<1, 2, 3>>]>>) =>
        /\ Rest(input, 8) = <<0, 9, 4, 110, 97, 109, 101, 1, 2, 3>>
        /\ pc # "failed"
        /\ Returned =>
               result.module.sections =
                   <<[variant |-> "Custom", name |-> <<110, 97, 109, 101>>,
                      payload |-> <<1, 2, 3>>]>>

\* C4 as amended: the length field is 8 (one byte of name length, four of
\* name, three of payload); the rest as stated.
C4_ExampleLength8 ==
    (/\ op = "roundtrip" /\ pc # "built"
     /\ arg.sections = <<[variant |-> "Custom", name |-> <<110, 97, 109, 101>>,
                          payload |-> <<1, 2, 3>>]>>) =>
        /\ Rest(input, 8) = <<0, 8, 4, 110, 97, 109, 101, 1, 2, 3>>
        /\ pc # "failed"
        /\ Returned =>
               result.module.sections =
                   <<[variant |-> "Custom", name |-> <<110, 97, 109, 101>>,
                      payload |-> <<1, 2, 3>>]>>

C4_Witness ==
    /\ op = "roundtrip" /\ pc = "done"
    /\ arg.sections = <<ExampleSection>>
    /\ Len(result.module.sections) = 1

(***************************************************************************)
(* C5.  Clean end versus truncation: Section::deserialize answers "no more *)
(* sections" exactly when no byte is left before the id byte; when the     *)
(* source ends inside the length field or before all declared payload      *)
(* bytes, the answer is a truncation error, and a section that is returned *)
(* holds all the bytes its length field declared.                          *)
(***************************************************************************)
C5_CleanEndOrTruncation ==
    (last # None) =>
        LET after == Rest(input, last.start + 1) IN
        /\ (last.kind = "None") <=> (last.start = Len(input))
        /\ (last.start < Len(input) /\ (EndsInsideLen(after) \/ EndsInsidePayload(after)))
               => (last.kind = "Err" /\ last.err = "TruncatedInput")
        /\ (last.kind = "Some") =>
               /\ WellFormedLen(after)
               /\ last.end = last.start + 1 + LenFieldSize(after)
                                + LebSum(after, LenFieldSize(after))
               /\ last.end <= Len(input)
               /\ (last.section.variant = "Standard" =>
                       Len(last.section.payload) = LebSum(after, LenFieldSize(after)))

C5_Witness ==
    /\ last # None /\ last.kind = "Err" /\ last.err = "TruncatedInput"
    /\ last.start > 8
    /\ EndsInsidePayload(Rest(input, last.start + 1))

(***************************************************************************)
(* C6.  All-or-nothing module parse: Module::deserialize returns a Module  *)
(* only if the header is valid and every record up to the clean end        *)
(* decodes, its sections being those records in input order; at the first  *)
(* record that fails it stops reading there and returns that record's      *)
(* error and no Module.                                                    *)
(***************************************************************************)
C6_AllOrNothing ==
    (Parsing /\ Returned /\ Len(input) >= 8 /\ Recognized(SubSeq(input, 1, 8))) =>
        LET all == DecodeAll(input, 8) IN
        IF all.ok
        THEN /\ pc # "failed"
             /\ result = [ok |-> TRUE,
                          module |-> [header |-> SubSeq(input, 1, 8),
                                      sections |-> all.sections]]
        ELSE /\ pc = "failed"
             /\ result = [ok |-> FALSE, err |-> all.err]
             /\ pos = all.pos

C6_Witness ==
    /\ Parsing /\ pc = "failed" /\ Len(sections) >= 1
    /\ last.kind = "Err" /\ result = [ok |-> FALSE, err |-> last.err]

(***************************************************************************)
(* C7.  Byte -> SectionId -> byte is the identity for every byte, and      *)
(* SectionId -> byte -> SectionId is the identity for every SectionId      *)
(* value, every Extension(x) included.                                     *)
(***************************************************************************)
C7_Inverse ==
    (pc = "returned" /\ op \in {"u8", "SectionId"}) => ret = arg

\* C7 as amended: byte -> SectionId -> byte is the identity for every byte,
\* and SectionId -> byte -> SectionId is the identity for the twelve named
\* kinds and for Extension(x) with 12 <= x <= 255.
C7_InverseOnCanonicalIds ==
    /\ (pc = "returned" /\ op = "u8") => ret = arg
    /\ (pc = "returned" /\ op = "SectionId" /\ (arg.tag = "Extension" => arg.x >= 12))
           => ret = arg
    /\ (pc = "mid" /\ op = "SectionId") => ret \in 0..255
    /\ (pc = "mid" /\ op = "u8") => ret \in SectionIds

C7_Witness ==
    /\ pc = "returned" /\ op = "SectionId"
    /\ arg = [tag |-> "Extension", x |-> 200] /\ ret = arg

(***************************************************************************)
(* C8.  In every Section the public constructors and decoders produce      *)
(* (Section::new, Section::deserialize, StandardSection::new wrapped in    *)
(* Section::Standard, CustomSection::new wrapped in Section::Custom), a    *)
(* Standard section's id is never CustomSection, and id() is CustomSection *)
(* exactly for Custom sections.                                            *)
(***************************************************************************)
SectionInvariant(s) ==
    /\ s.variant = "Standard" => s.id # [tag |-> "CustomSection"]
    /\ (SectionIdOf(s) = [tag |-> "CustomSection"]) <=> (s.variant = "Custom")

C8_StandardIsNeverCustom ==
    /\ (pc = "returned"
          /\ op \in {"Section::new", "StandardSection::new", "CustomSection::new"}
          /\ ret.ok) => SectionInvariant(ret.section)
    /\ \A i \in 1..Len(sections) : SectionInvariant(sections[i])
    /\ (last # None /\ last.kind = "Some") => SectionInvariant(last.section)

(***************************************************************************)
(* C9.  Section::new with id CustomSection reads its payload as a varint32 *)
(* name length, that many name bytes and a remainder: a truncation error   *)
(* when fewer name bytes follow the length field, InvalidUtf8 when the     *)
(* name is not UTF-8, otherwise a Custom section with that name and        *)
(* exactly the remainder as payload.  With any other id it never fails and *)
(* returns a Standard section holding the id and the payload unchanged.    *)
(* (A payload that ends inside the length field is a truncation error too; *)
(* a length field that does not fit 32 bits is the varint decoder's error.)*)
(***************************************************************************)
C9_SectionNew ==
    (op = "Section::new" /\ pc = "returned") =>
        LET p  == arg.payload
            k  == LenFieldSize(p)
            nl == LebSum(p, k)
        IN IF arg.id # [tag |-> "CustomSection"]
           THEN ret = [ok |-> TRUE,
                       section |-> [variant |-> "Standard", id |-> arg.id, payload |-> p]]
           ELSE IF EndsInsideLen(p) THEN ret = [ok |-> FALSE, err |-> "TruncatedInput"]
           ELSE IF ~WellFormedLen(p) THEN ret = [ok |-> FALSE, err |-> "VarintOverflow"]
           ELSE IF Len(p) - k < nl THEN ret = [ok |-> FALSE, err |-> "TruncatedInput"]
           ELSE IF ~ValidUtf8(SubSeq(p, k + 1, k + nl))
                THEN ret = [ok |-> FALSE, err |-> "InvalidUtf8"]
           ELSE ret = [ok |-> TRUE,
                       section |-> [variant |-> "Custom",
                                    name |-> SubSeq(p, k + 1, k + nl),
                                    payload |-> Rest(p, k + nl)]]

C9_Witness ==
    /\ op = "Section::new" /\ pc = "returned" /\ arg.id = CustomSectionId
    /\ ret.ok /\ ret.section.variant = "Custom"
    /\ ret.section.name # <<>> /\ ret.section.payload # <<>>

(***************************************************************************)
(* C10.  The section iterator is finite and forward-only: a call of next() *)
(* that yields an item has consumed at least one byte, the read position   *)
(* never moves backwards, the items yielded never outnumber the bytes read *)
(* after the header, and Module::deserialize returns on every input:       *)
(* every turn of its loop that does not return moves the read position     *)
(* forward, and the read position never passes the end of the input.  The  *)
(* same holds of next() called directly, calls after an error or after a   *)
(* rejected header included;                                               *)
(* once it has answered None at the end of the source it keeps doing so.   *)
(***************************************************************************)
C10_FiniteForwardOnly ==
    /\ [][/\ pos' >= pos
          /\ yielded' > yielded => (yielded' = yielded + 1 /\ pos' > pos)
          /\ (pc = "stream" /\ pc' = "stream") => pos' > pos
          /\ (pc \in {"iter", "rejected"} /\ pc' = "iter") => pos' > pos
          /\ pc = "ended" => (pc' = "ended" /\ pos' = pos /\ yielded' = yielded)]_vars
    /\ [](pc \notin {"built", "start", "init"} =>
             /\ pos <= Len(input)
             /\ yielded <= pos - (IF Len(input) >= 8 THEN 8 ELSE Len(input)))
    /\ [](pc = "ended" => pos = Len(input))

\* The iterator used directly: a record that fails, then one that decodes.
C10_Witness ==
    /\ op = "stream" /\ yielded = 2 /\ last.kind = "Some"
    /\ SectionDeserialize(input, 8).kind = "Err"
    /\ last.start = SectionDeserialize(input, 8).pos

====
